---- MODULE Spec2Model ----
(***************************************************************************)
(* Model of the travel planner: the plan-generation pipeline               *)
(* (utils/travel_planner.py, utils/llm_client.py), the pydantic plan       *)
(* models (models/travel_plan.py) and the itinerary/chat handlers of the   *)
(* Streamlit page (app.py).                                                *)
(***************************************************************************)
EXTENDS Integers, Sequences, FiniteSets, TLC

VARIABLES
    \* the configured credentials (config.py) and the error the page shows
    config, banner,
    \* st.session_state of app.py
    current_travel_plan, current_plan_dict, chat_messages, chat_history,
    \* position of the chat handler and the values it holds while it runs
    pc, user_input, prior_dict, prior_plan, last_reply, result,
    \* the providers asked by the last press of Generate Itinerary
    provider_calls,
    \* the messages of the request modify_itinerary has sent for the edit under way
    sent,
    \* one run of TravelPlanner.generate_travel_plan: inputs, environment, outcome
    request, draft_reply, env, gen_pc, plan_out, drafter_calls,
    \* one provider adapter instance (FlightsClient, HotelsClient, PlacesClient or
    \* GeocodingService) and the outcome of its last query
    adapter

session_vars == <<config, banner, current_travel_plan, current_plan_dict, chat_messages, chat_history,
                  pc, user_input, prior_dict, prior_plan, last_reply, result, provider_calls, sent>>
gen_vars == <<request, draft_reply, env, gen_pc, plan_out, drafter_calls>>
vars == <<config, banner, current_travel_plan, current_plan_dict, chat_messages, chat_history,
          pc, user_input, prior_dict, prior_plan, last_reply, result, provider_calls, sent,
          request, draft_reply, env, gen_pc, plan_out, drafter_calls, adapter>>

(***************************************************************************)
(* Bounds of the model.                                                    *)
(***************************************************************************)
MaxContentLen == 4
MaxEdits == 1
MaxSpan == 2
MaxChatEdits == 7

(***************************************************************************)
(* Python / JSON values.  Every value carries its type tag, so that a      *)
(* string where a number is expected is a value the checks can meet.       *)
(***************************************************************************)
None == [t |-> "null", v |-> 0]
Num(n) == [t |-> "num", v |-> n]
Str(s) == [t |-> "str", v |-> s]
List(s) == [t |-> "list", v |-> s]
Obj(f) == [t |-> "obj", v |-> f]
EmptyDict == [k \in {} |-> None]

IsDict(x) == x.t = "obj"
IsList(x) == x.t = "list"

\* Python truth value of a JSON value (used by `or`, `if x:`)
Truthy(x) ==
    CASE x.t = "null" -> FALSE
      [] x.t = "num" -> x.v # 0
      [] x.t = "str" -> x.v # ""
      [] x.t = "list" -> Len(x.v) > 0
      [] x.t = "obj" -> DOMAIN x.v # {}
      [] OTHER -> TRUE

\* dict.get(key, default) on the mapping d
Get(d, key, default) == IF key \in DOMAIN d THEN d[key] ELSE default

\* {**a, **b}: every key of b takes b's value, every other key keeps a's
MergeDicts(a, b) ==
    [k \in (DOMAIN a) \cup (DOMAIN b) |-> IF k \in DOMAIN b THEN b[k] ELSE a[k]]

(***************************************************************************)
(* Dates (datetime.date within one year) and strftime("%Y-%m-%d").         *)
(***************************************************************************)
Year == 2025
DaysInMonth == <<31, 28, 31, 30, 31, 30, 31, 31, 30, 31, 30, 31>>

RECURSIVE DaysBefore(_)
DaysBefore(m) == IF m = 1 THEN 0 ELSE DaysBefore(m - 1) + DaysInMonth[m - 1]

\* date.toordinal(), counted from January 1st of Year
Ordinal(d) == DaysBefore(d.m) + d.d

FromOrdinal(o) ==
    LET m == CHOOSE mm \in 1..12 : DaysBefore(mm) < o /\ o <= DaysBefore(mm) + DaysInMonth[mm]
    IN  [y |-> Year, m |-> m, d |-> o - DaysBefore(m)]

\* (a - b).days
DaysBetween(a, b) == Ordinal(a) - Ordinal(b)

Pad2(n) == IF n < 10 THEN "0" \o ToString(n) ELSE ToString(n)

\* date.strftime("%Y-%m-%d")
Strftime(d) == ToString(d.y) \o "-" \o Pad2(d.m) \o "-" \o Pad2(d.d)

(***************************************************************************)
(* pydantic models of models/travel_plan.py.  A schema maps every field to *)
(* its kind; validation fails on a missing required field or a value of    *)
(* the wrong type, fills the defaults, and ignores unknown keys.           *)
(***************************************************************************)
TransportationSchema ==
    [type |-> "str", from_location |-> "str", to_location |-> "str",
     departure_date |-> "str", departure_time |-> "optstr", arrival_date |-> "str",
     arrival_time |-> "optstr", airline |-> "optstr", flight_number |-> "optstr",
     class_type |-> "optstr", price |-> "optnum", currency |-> "usd",
     duration |-> "optstr", notes |-> "optstr"]

AccommodationSchema ==
    [name |-> "str", type |-> "str", location |-> "str", price_per_night |-> "optnum",
     total_price |-> "optnum", currency |-> "usd", rating |-> "optnum",
     address |-> "optstr", check_in |-> "str", check_out |-> "str", nights |-> "num",
     notes |-> "optstr", amenities |-> "optstrlist"]

ActivitySchema ==
    [name |-> "str", type |-> "str", time |-> "str", description |-> "optstr",
     location |-> "optstr", duration |-> "optstr", cost |-> "optnum", currency |-> "usd",
     notes |-> "optstr", rating |-> "optnum", user_ratings_total |-> "optnum"]

DayItinerarySchema ==
    [date |-> "str", day_number |-> "num", morning |-> "activities",
     afternoon |-> "activities", evening |-> "activities", notes |-> "optstr"]

CostBreakdownSchema ==
    [transportation |-> "num", accommodation |-> "num", activities |-> "num",
     food |-> "num", local_transport |-> "num", total |-> "num", currency |-> "usd",
     per_person |-> "optnum"]

TravelPlanSchema ==
    [plan_type |-> "str", source |-> "str", destination |-> "str", start_date |-> "str",
     end_date |-> "str", duration_days |-> "num", travelers |-> "num",
     transportation |-> "transportations", accommodation |-> "accommodation",
     itinerary |-> "days", cost_breakdown |-> "costs", summary |-> "optstr",
     highlights |-> "optstrlist", tips |-> "optstrlist"]

Required(kind) ==
    kind \in {"str", "num", "activities", "transportations", "accommodation", "days", "costs"}

AllStr(s) == \A i \in 1..Len(s) : s[i].t = "str"

\* validation of the fields that hold no nested model
ScalarOK(kind, x) ==
    CASE kind = "str" -> x.t = "str"
      [] kind = "num" -> x.t = "num"
      [] kind = "optstr" -> x.t \in {"str", "null"}
      [] kind = "optnum" -> x.t \in {"num", "null"}
      [] kind = "usd" -> x.t = "str"
      [] kind = "optstrlist" -> x.t = "null" \/ (x.t = "list" /\ AllStr(x.v))
      [] OTHER -> FALSE

Default(kind) == IF kind = "usd" THEN Str("USD") ELSE None

\* a model whose fields are all scalar: Transportation, Accommodation, Activity, CostBreakdown
FlatOK(schema, x) ==
    /\ IsDict(x)
    /\ \A f \in DOMAIN schema :
          IF f \in DOMAIN x.v THEN ScalarOK(schema[f], x.v[f]) ELSE ~Required(schema[f])

FlatModel(schema, x) ==
    Obj([f \in DOMAIN schema |-> IF f \in DOMAIN x.v THEN x.v[f] ELSE Default(schema[f])])

Activity_OK(x) == FlatOK(ActivitySchema, x)
Activity(x) == FlatModel(ActivitySchema, x)

ActivitiesOK(x) == IsList(x) /\ \A i \in 1..Len(x.v) : Activity_OK(x.v[i])
Activities(x) == List([i \in 1..Len(x.v) |-> Activity(x.v[i])])

DayItinerary_OK(x) ==
    /\ IsDict(x)
    /\ \A f \in DOMAIN DayItinerarySchema :
          IF f \in DOMAIN x.v
          THEN IF DayItinerarySchema[f] = "activities"
               THEN ActivitiesOK(x.v[f])
               ELSE ScalarOK(DayItinerarySchema[f], x.v[f])
          ELSE ~Required(DayItinerarySchema[f])

DayItinerary(x) ==
    Obj([f \in DOMAIN DayItinerarySchema |->
            IF f \notin DOMAIN x.v THEN None
            ELSE IF DayItinerarySchema[f] = "activities" THEN Activities(x.v[f])
            ELSE x.v[f]])

NestedOK(kind, x) ==
    CASE kind = "transportations" ->
            IsList(x) /\ \A i \in 1..Len(x.v) : FlatOK(TransportationSchema, x.v[i])
      [] kind = "accommodation" -> FlatOK(AccommodationSchema, x)
      [] kind = "days" -> IsList(x) /\ \A i \in 1..Len(x.v) : DayItinerary_OK(x.v[i])
      [] kind = "costs" -> FlatOK(CostBreakdownSchema, x)
      [] OTHER -> ScalarOK(kind, x)

NestedModel(kind, x) ==
    CASE kind = "transportations" ->
            List([i \in 1..Len(x.v) |-> FlatModel(TransportationSchema, x.v[i])])
      [] kind = "accommodation" -> FlatModel(AccommodationSchema, x)
      [] kind = "days" -> List([i \in 1..Len(x.v) |-> DayItinerary(x.v[i])])
      [] kind = "costs" -> FlatModel(CostBreakdownSchema, x)
      [] OTHER -> x

\* TravelPlan(**d) succeeds on the keyword arguments d (a mapping)
TravelPlan_OK(d) ==
    \A f \in DOMAIN TravelPlanSchema :
        IF f \in DOMAIN d THEN NestedOK(TravelPlanSchema[f], d[f])
        ELSE ~Required(TravelPlanSchema[f])

\* the TravelPlan instance built from d, given TravelPlan_OK(d)
TravelPlan(d) ==
    [t |-> "TravelPlan",
     v |-> [f \in DOMAIN TravelPlanSchema |->
              IF f \in DOMAIN d THEN NestedModel(TravelPlanSchema[f], d[f])
              ELSE Default(TravelPlanSchema[f])]]

\* plan.model_dump(): the instance's fields as a plain dict
ModelDump(plan) == Obj(plan.v)

(***************************************************************************)
(* Text of a model reply and json.loads / re.search on it.  A text is a    *)
(* sequence of tokens: an opening brace, a closing brace, a member          *)
(* ("key": value, the value already a whole JSON value), a bare scalar, or  *)
(* a piece of prose.                                                        *)
(***************************************************************************)
LBrace == [tok |-> "{", k |-> "", v |-> None]
RBrace == [tok |-> "}", k |-> "", v |-> None]
Prose == [tok |-> "prose", k |-> "", v |-> None]
Scalar == [tok |-> "scalar", k |-> "", v |-> Num(42)]
Member(key, val) == [tok |-> "member", k |-> key, v |-> val]

SubText(c, i, j) == [n \in 1..(j - i + 1) |-> c[n + i - 1]]

\* the object a member list denotes; a repeated key keeps its last value
RECURSIVE MembersToDict(_)
MembersToDict(ms) ==
    IF Len(ms) = 0 THEN EmptyDict
    ELSE MergeDicts(MembersToDict(SubText(ms, 1, Len(ms) - 1)),
                    [k \in {ms[Len(ms)].k} |-> ms[Len(ms)].v])

IsObjectText(c) ==
    /\ Len(c) >= 2
    /\ c[1] = LBrace
    /\ c[Len(c)] = RBrace
    /\ \A i \in 2..(Len(c) - 1) : c[i].tok = "member"

\* json.loads(c) succeeds (no JSONDecodeError)
JsonParses(c) == IsObjectText(c) \/ (Len(c) = 1 /\ c[1].tok = "scalar")

\* json.loads(c), given JsonParses(c)
JsonLoads(c) ==
    IF IsObjectText(c) THEN Obj(MembersToDict(SubText(c, 2, Len(c) - 1))) ELSE c[1].v

Positions(c, token) == {i \in 1..Len(c) : c[i] = token}
Min(S) == CHOOSE x \in S : \A y \in S : x <= y
Max(S) == CHOOSE x \in S : \A y \in S : x >= y

\* re.search(r'\{[\s\S]*\}', c) finds a match: some '{' with a '}' after it
RegexMatches(c) ==
    /\ Positions(c, LBrace) # {}
    /\ \E j \in Positions(c, RBrace) : j > Min(Positions(c, LBrace))

\* a lazy match: from the first '{' to the first '}' after it
RegexGroup_Lazy(c) ==
    SubText(c, Min(Positions(c, LBrace)),
            Min({j \in Positions(c, RBrace) : j > Min(Positions(c, LBrace))}))

\* json_match.group(): greedy, from the first '{' to the last '}'
RegexGroup(c) == SubText(c, Min(Positions(c, LBrace)), Max(Positions(c, RBrace)))

(***************************************************************************)
(* Outcome of one chat.completions.create call: the request fails, the     *)
(* message has no content, or it carries a text.                           *)
(***************************************************************************)
ApiError == [kind |-> "error", content |-> << >>]
NoContent == [kind |-> "none", content |-> << >>]
Text(c) == [kind |-> "text", content |-> c]

(***************************************************************************)
(* LLMClient.generate_travel_plan: one request, the content parsed by      *)
(* json.loads, every failure re-raised.                                    *)
(***************************************************************************)
LLMGenerateRaises(reply) == reply.kind # "text" \/ ~JsonParses(reply.content)
LLMGenerate(reply) == JsonLoads(reply.content)
\* a drafter that asks once more when the first request failed
LLMGenerateCalls_Retry(reply) == IF reply.kind # "text" \/ ~JsonParses(reply.content) THEN 2 ELSE 1

LLMGenerateCalls(reply) == 1

(***************************************************************************)
(* Provider adapters as the planner sees them.  env.geo, env.flights and   *)
(* env.places are what the providers answer during one generation.         *)
(***************************************************************************)
Coords == List(<<Num(48), Num(2)>>)

\* a geocoder that answers with coordinates whatever happened
Geocode_Always(e) == Coords

\* GeocodingService.geocode: coordinates, or None when nothing is found or the call fails
Geocode(e) == IF e.geo = "coords" THEN Coords ELSE None

\* PlacesClient.search_places: the places found, [] when the call fails
SearchPlaces(e) == IF e.places_fail THEN << >> ELSE e.places

Rating(p) == Get(p.v, "rating", Num(0)).v

\* PlacesClient.enrich_activity_with_places: the best rated match (the first of them), or None
EnrichActivityWithPlaces(e) ==
    LET places == SearchPlaces(e)
        best == Min({i \in 1..Len(places) : \A j \in 1..Len(places) : Rating(places[j]) <= Rating(places[i])})
    IN  IF Len(places) > 0 THEN places[best] ELSE None

\* Python iteration over a JSON value whose items must be mappings: it goes through a list,
\* does nothing on an empty string or mapping, and fails on everything else
Items(x) == IF IsList(x) THEN x.v ELSE << >>
IterFails(x) == ~(IsList(x) \/ (x.t \in {"str", "obj"} /\ ~Truthy(x)))

TimeSlots == {"morning", "afternoon", "evening"}

\* the body of the activity loop of _enrich_itinerary_with_places
EnrichActivity(activity, coords, e) ==
    LET place == EnrichActivityWithPlaces(e)
    IN  IF Truthy(Get(activity.v, "name", Str(""))) /\ Truthy(coords) /\ Truthy(place)
        THEN Obj(MergeDicts(activity.v,
                 [rating |-> Get(place.v, "rating", None),
                  location |-> Get(place.v, "vicinity", None),
                  user_ratings_total |-> Get(place.v, "user_ratings_total", None)]))
        ELSE activity

EnrichDay(day, coords, e) ==
    Obj([k \in DOMAIN day.v |->
            IF k \in TimeSlots
            THEN List([i \in 1..Len(Items(day.v[k])) |-> EnrichActivity(Items(day.v[k])[i], coords, e)])
            ELSE day.v[k]])

EnrichDayRaises(day) ==
    \/ ~IsDict(day)
    \/ \E k \in DOMAIN day.v \cap TimeSlots :
          \/ IterFails(day.v[k])
          \/ \E i \in 1..Len(Items(day.v[k])) : ~IsDict(Items(day.v[k])[i])

\* TravelPlanner._enrich_itinerary_with_places
EnrichItineraryRaises(itinerary_data) ==
    \/ IterFails(itinerary_data)
    \/ \E i \in 1..Len(Items(itinerary_data)) : EnrichDayRaises(Items(itinerary_data)[i])

EnrichItineraryWithPlaces(itinerary_data, coords, e) ==
    List([i \in 1..Len(Items(itinerary_data)) |-> EnrichDay(Items(itinerary_data)[i], coords, e)])

(***************************************************************************)
(* TravelPlanner._parse_llm_plan_to_travel_plan, piece by piece.  Each     *)
(* piece has the keyword arguments it hands to the pydantic model and the  *)
(* condition under which building it raises.                               *)
(***************************************************************************)
GetNone(d, key) == Get(d, key, None)
Or(a, b) == IF Truthy(a) THEN a ELSE b

\* transport_data after the selected flight has been merged over the draft's estimate
TransportData(llm_data, req) ==
    LET transport_data == Get(llm_data, "transportation", Obj(EmptyDict))
        selected == req.selected_flight
        merged == MergeDicts(transport_data.v, selected.v)
    IN  IF Truthy(selected)
        THEN IF Truthy(GetNone(selected.v, "price"))
             THEN Obj(MergeDicts(merged, [price |-> selected.v["price"]]))
             ELSE Obj(merged)
        ELSE transport_data

ArrivalDate(req) ==
    IF req.trip_type = "return" THEN Strftime(req.end_date) ELSE Strftime(req.start_date)

TransportationArgs(llm_data, req) ==
    LET td == TransportData(llm_data, req).v
    IN  Obj([type |-> Get(td, "type", Str("flight")),
             from_location |-> req.source,
             to_location |-> req.destination,
             departure_date |-> Str(Strftime(req.start_date)),
             departure_time |-> GetNone(td, "departure_time"),
             arrival_date |-> Str(ArrivalDate(req)),
             arrival_time |-> GetNone(td, "arrival_time"),
             airline |-> GetNone(td, "airline"),
             flight_number |-> GetNone(td, "flight_number"),
             class_type |-> Get(td, "class_type", req.flight_class),
             price |-> Or(GetNone(td, "estimated_price"), GetNone(td, "price")),
             duration |-> GetNone(td, "duration"),
             notes |-> Or(GetNone(td, "notes"),
                          Str(IF req.trip_type = "return" THEN "Round trip flight" ELSE "One-way flight"))])

TransportationRaises(llm_data, req) ==
    \/ ~IsDict(Get(llm_data, "transportation", Obj(EmptyDict)))
    \/ ~FlatOK(TransportationSchema, TransportationArgs(llm_data, req))

HotelLocation(accom_data, req) ==
    IF Truthy(req.hotel_address) THEN req.hotel_address
    ELSE Or(GetNone(accom_data, "address"), req.destination)

\* an accommodation that keeps the stay dates of the draft when it has them
AccommodationArgs_DraftDates(llm_data, req, duration) ==
    LET accom_data == Get(llm_data, "accommodation", Obj(EmptyDict)).v
    IN  Obj([name |-> Get(accom_data, "name", Str("Hotel")),
             type |-> Str("hotel"),
             location |-> HotelLocation(accom_data, req),
             price_per_night |-> GetNone(accom_data, "price_per_night"),
             total_price |-> GetNone(accom_data, "total_price"),
             rating |-> GetNone(accom_data, "rating"),
             address |-> HotelLocation(accom_data, req),
             check_in |-> Get(accom_data, "check_in", Str(Strftime(req.start_date))),
             check_out |-> Get(accom_data, "check_out", Str(Strftime(req.end_date))),
             nights |-> Num(duration),
             notes |-> GetNone(accom_data, "notes"),
             amenities |-> Get(accom_data, "amenities", List(<< >>))])

AccommodationArgs(llm_data, req, duration) ==
    LET accom_data == Get(llm_data, "accommodation", Obj(EmptyDict)).v
    IN  Obj([name |-> Get(accom_data, "name", Str("Hotel")),
             type |-> Str("hotel"),
             location |-> HotelLocation(accom_data, req),
             price_per_night |-> GetNone(accom_data, "price_per_night"),
             total_price |-> GetNone(accom_data, "total_price"),
             rating |-> GetNone(accom_data, "rating"),
             address |-> HotelLocation(accom_data, req),
             check_in |-> Str(Strftime(req.start_date)),
             check_out |-> Str(Strftime(req.end_date)),
             nights |-> Num(duration),
             notes |-> GetNone(accom_data, "notes"),
             amenities |-> Get(accom_data, "amenities", List(<< >>))])

AccommodationRaises(llm_data, req, duration) ==
    \/ ~IsDict(Get(llm_data, "accommodation", Obj(EmptyDict)))
    \/ ~FlatOK(AccommodationSchema, AccommodationArgs(llm_data, req, duration))

\* parse_activities: a mapping gets its time slot when it has none and is dropped when it
\* does not validate; anything that is not a mapping is passed on as it is
ParseActivities(activities, time_slot) ==
    LET WithTime(act) == IF "time" \in DOMAIN act.v THEN act
                         ELSE Obj(MergeDicts(act.v, [time |-> Str(time_slot)]))
        Keep(act) == ~IsDict(act) \/ Activity_OK(WithTime(act))
        kept == SelectSeq(Items(activities), Keep)
    IN  List([i \in 1..Len(kept) |-> IF IsDict(kept[i]) THEN Activity(WithTime(kept[i])) ELSE kept[i]])

DayArgs(day_data, idx) ==
    Obj([date |-> Get(day_data.v, "date", Str("")),
         day_number |-> Get(day_data.v, "day_number", Num(idx)),
         morning |-> ParseActivities(Get(day_data.v, "morning", List(<< >>)), "morning"),
         afternoon |-> ParseActivities(Get(day_data.v, "afternoon", List(<< >>)), "afternoon"),
         evening |-> ParseActivities(Get(day_data.v, "evening", List(<< >>)), "evening"),
         notes |-> GetNone(day_data.v, "notes")])

DayRaises(day_data, idx) ==
    \/ ~IsDict(day_data)
    \/ \E k \in TimeSlots : IterFails(Get(day_data.v, k, List(<< >>)))
    \/ ~DayItinerary_OK(DayArgs(day_data, idx))

ItineraryArgs(llm_data) ==
    LET itinerary_data == Items(Get(llm_data, "itinerary", List(<< >>)))
    IN  List([idx \in 1..Len(itinerary_data) |-> DayItinerary(DayArgs(itinerary_data[idx], idx))])

ItineraryRaises(llm_data) ==
    LET itinerary_data == Get(llm_data, "itinerary", List(<< >>))
    IN  \/ IterFails(itinerary_data)
        \/ \E idx \in 1..Len(Items(itinerary_data)) : DayRaises(Items(itinerary_data)[idx], idx)

CostArgs(llm_data) ==
    LET cost_data == Get(llm_data, "cost_breakdown", Obj(EmptyDict)).v
    IN  Obj([transportation |-> Get(cost_data, "transportation", Num(0)),
             accommodation |-> Get(cost_data, "accommodation", Num(0)),
             activities |-> Get(cost_data, "activities", Num(0)),
             food |-> Get(cost_data, "food", Num(0)),
             local_transport |-> Get(cost_data, "local_transport", Num(0)),
             total |-> Get(cost_data, "total", Num(0)),
             per_person |-> GetNone(cost_data, "per_person")])

CostRaises(llm_data) ==
    \/ ~IsDict(Get(llm_data, "cost_breakdown", Obj(EmptyDict)))
    \/ ~FlatOK(CostBreakdownSchema, CostArgs(llm_data))

\* a plan type rule whose thresholds are inclusive
PlanType_Inclusive(req) ==
    IF req.flight_class.v \in {"first", "business"} /\ req.hotel_price_max >= 300 THEN "comfort"
    ELSE IF req.flight_class.v = "economy" /\ req.hotel_price_max <= 150 THEN "budget"
    ELSE "balanced"

PlanType(req) ==
    IF req.flight_class.v \in {"first", "business"} /\ req.hotel_price_max > 300 THEN "comfort"
    ELSE IF req.flight_class.v = "economy" /\ req.hotel_price_max < 150 THEN "budget"
    ELSE "balanced"

\* a plan that takes the route, the dates and the head count from the draft when it has them
TravelPlanArgs_DraftFirst(llm_data, req, duration) ==
    [plan_type |-> Str(PlanType(req)),
     source |-> Get(llm_data, "source", req.source),
     destination |-> Get(llm_data, "destination", req.destination),
     start_date |-> Get(llm_data, "start_date", Str(Strftime(req.start_date))),
     end_date |-> Get(llm_data, "end_date", Str(Strftime(req.end_date))),
     duration_days |-> Get(llm_data, "duration_days", Num(duration)),
     travelers |-> Get(llm_data, "travelers", Num(req.travelers)),
     transportation |-> List(<<FlatModel(TransportationSchema, TransportationArgs(llm_data, req))>>),
     accommodation |-> FlatModel(AccommodationSchema, AccommodationArgs(llm_data, req, duration)),
     itinerary |-> ItineraryArgs(llm_data),
     cost_breakdown |-> FlatModel(CostBreakdownSchema, CostArgs(llm_data)),
     summary |-> GetNone(llm_data, "summary"),
     highlights |-> Get(llm_data, "highlights", List(<< >>)),
     tips |-> Get(llm_data, "tips", List(<< >>))]

TravelPlanArgs(llm_data, req, duration) ==
    [plan_type |-> Str(PlanType(req)),
     source |-> req.source,
     destination |-> req.destination,
     start_date |-> Str(Strftime(req.start_date)),
     end_date |-> Str(Strftime(req.end_date)),
     duration_days |-> Num(duration),
     travelers |-> Num(req.travelers),
     transportation |-> List(<<FlatModel(TransportationSchema, TransportationArgs(llm_data, req))>>),
     accommodation |-> FlatModel(AccommodationSchema, AccommodationArgs(llm_data, req, duration)),
     itinerary |-> ItineraryArgs(llm_data),
     cost_breakdown |-> FlatModel(CostBreakdownSchema, CostArgs(llm_data)),
     summary |-> GetNone(llm_data, "summary"),
     highlights |-> Get(llm_data, "highlights", List(<< >>)),
     tips |-> Get(llm_data, "tips", List(<< >>))]

\* a parse that refuses a draft with fewer days than the trip has
ParseRaises_NeedsAllDays(llm_data, req, duration) ==
    \/ TransportationRaises(llm_data, req)
    \/ AccommodationRaises(llm_data, req, duration)
    \/ ItineraryRaises(llm_data)
    \/ Len(Items(Get(llm_data, "itinerary", List(<< >>)))) < duration
    \/ CostRaises(llm_data)
    \/ ~TravelPlan_OK(TravelPlanArgs(llm_data, req, duration))

ParseRaises(llm_data, req, duration) ==
    \/ TransportationRaises(llm_data, req)
    \/ AccommodationRaises(llm_data, req, duration)
    \/ ItineraryRaises(llm_data)
    \/ CostRaises(llm_data)
    \/ ~TravelPlan_OK(TravelPlanArgs(llm_data, req, duration))

ParseLlmPlanToTravelPlan(llm_data, req, duration) == TravelPlan(TravelPlanArgs(llm_data, req, duration))

(***************************************************************************)
(* TravelPlanner._generate_single_plan and generate_travel_plan.           *)
(***************************************************************************)
\* FlightsClient.search_flights as called by the planner
SearchFlightsRaises(e) == e.flights_raise
SearchFlights(e) == e.flights

InBand(f, req) ==
    LET price == Get(f.v, "price", None)
    IN  price.t = "num" /\ req.flight_price_min <= price.v /\ price.v <= req.flight_price_max

\* flight_data: the selected flight, else the first search result in the price band, else
\* the first search result, else None
\* a choice that takes the first search result whatever the price band
FlightData_FirstResult(req, e) ==
    IF Truthy(req.selected_flight) THEN req.selected_flight
    ELSE IF SearchFlightsRaises(e) \/ Len(SearchFlights(e)) = 0 THEN None
    ELSE SearchFlights(e)[1]

FlightData(req, e) ==
    LET flights == SearchFlights(e)
        filtered_flights == SelectSeq(flights, LAMBDA f : InBand(f, req))
    IN  IF Truthy(req.selected_flight) THEN req.selected_flight
        ELSE IF SearchFlightsRaises(e) \/ Len(flights) = 0 THEN None
        ELSE IF Len(filtered_flights) > 0 THEN filtered_flights[1] ELSE flights[1]

EnrichApplies(llm_data, coords) == Truthy(coords) /\ "itinerary" \in DOMAIN llm_data

\* llm_plan_data after the itinerary has been enriched
WithEnrichedItinerary(llm_data, coords, e) ==
    IF EnrichApplies(llm_data, coords)
    THEN MergeDicts(llm_data, [itinerary |-> EnrichItineraryWithPlaces(llm_data["itinerary"], coords, e)])
    ELSE llm_data

MergeApplies(llm_data, req, e) == Truthy(FlightData(req, e)) /\ "transportation" \in DOMAIN llm_data

\* llm_plan_data after llm_plan_data["transportation"].update(flight_data)
WithFlightData(llm_data, req, e) ==
    IF MergeApplies(llm_data, req, e)
    THEN MergeDicts(llm_data,
            [transportation |-> Obj(MergeDicts(llm_data["transportation"].v, FlightData(req, e).v))])
    ELSE llm_data

PlanData(req, reply, e, coords) ==
    WithFlightData(WithEnrichedItinerary(LLMGenerate(reply).v, coords, e), req, e)

GenerateSinglePlanRaises(req, reply, e, duration, coords) ==
    \/ LLMGenerateRaises(reply)
    \/ ~IsDict(LLMGenerate(reply))
    \/ (EnrichApplies(LLMGenerate(reply).v, coords) /\ EnrichItineraryRaises(LLMGenerate(reply).v["itinerary"]))
    \/ (MergeApplies(LLMGenerate(reply).v, req, e) /\ ~IsDict(LLMGenerate(reply).v["transportation"]))
    \/ ParseRaises(PlanData(req, reply, e, coords), req, duration)

GenerateSinglePlan(req, reply, e, duration, coords) ==
    ParseLlmPlanToTravelPlan(PlanData(req, reply, e, coords), req, duration)

Duration(req) == DaysBetween(req.end_date, req.start_date) + 1

\* TravelPlanner.generate_travel_plan: the plan, or None when anything raised
GenerateTravelPlan(req, reply, e) ==
    IF GenerateSinglePlanRaises(req, reply, e, Duration(req), Geocode(e)) THEN None
    ELSE GenerateSinglePlan(req, reply, e, Duration(req), Geocode(e))

\* drafter requests issued by one generate_travel_plan call
DrafterCalls(req, reply, e) == LLMGenerateCalls(reply)

\* the providers one generate_travel_plan call asks: geocoding and the drafter always, the
\* flight search when the draft came and no flight is selected, the places search when the
\* enrichment reaches a named activity before anything in the itinerary makes it raise
ProviderCalls(req, reply, e) ==
    LET drafted == ~LLMGenerateRaises(reply)
        data == LLMGenerate(reply)
        slots == <<"morning", "afternoon", "evening">>
        days == Items(data.v["itinerary"])
        Slot(i, n) == days[i].v[slots[n]]
        HasSlot(i, n) == IsDict(days[i]) /\ slots[n] \in DOMAIN days[i].v
        positions == {<<i, n, j>> \in (1..Len(days)) \X (0..3) \X (0..MaxContentLen) :
                         \/ n = 0 /\ j = 0
                         \/ n > 0 /\ HasSlot(i, n) /\ j <= Len(Items(Slot(i, n)))}
        Before(p, q) == \/ p[1] < q[1]
                        \/ p[1] = q[1] /\ p[2] < q[2]
                        \/ p[1] = q[1] /\ p[2] = q[2] /\ p[3] < q[3]
        Raises(p) == \/ p[2] = 0 /\ ~IsDict(days[p[1]])
                     \/ p[2] > 0 /\ p[3] = 0 /\ IterFails(Slot(p[1], p[2]))
                     \/ p[2] > 0 /\ p[3] > 0 /\ ~IsDict(Items(Slot(p[1], p[2]))[p[3]])
        Named(p) == /\ p[2] > 0 /\ p[3] > 0
                    /\ IsDict(Items(Slot(p[1], p[2]))[p[3]])
                    /\ Truthy(Get(Items(Slot(p[1], p[2]))[p[3]].v, "name", Str("")))
        enriched == /\ drafted /\ IsDict(data) /\ EnrichApplies(data.v, Geocode(e))
                    /\ \E p \in positions : Named(p) /\ \A q \in positions : Raises(q) => ~Before(q, p)
    IN  {"geocoding", "drafter"}
        \cup (IF drafted /\ ~Truthy(req.selected_flight) THEN {"flights"} ELSE {})
        \cup (IF enriched THEN {"places"} ELSE {})

(***************************************************************************)
(* LLMClient.modify_itinerary.  The result carries, next to the returned   *)
(* success / plan / message, the caller's current_plan object as the call  *)
(* leaves it (the call receives the object itself, not a copy).            *)
(***************************************************************************)
HistoryWindow == 6

MsgUpdated == "Itinerary updated successfully!"
MsgTrouble == "I understood your request but had trouble updating the plan. Could you try rephrasing?"
MsgWentWrong == "Sorry, something went wrong while updating the itinerary. Please try again."

Message(role, content) == [role |-> role, content |-> content]

\* a window that keeps the oldest messages of the conversation
RecentHistory_Oldest(conversation_history) ==
    IF Len(conversation_history) > HistoryWindow
    THEN SubText(conversation_history, 1, HistoryWindow)
    ELSE conversation_history

\* conversation_history[-6:]
RecentHistory(conversation_history) ==
    IF Len(conversation_history) > HistoryWindow
    THEN SubText(conversation_history, Len(conversation_history) - HistoryWindow + 1, Len(conversation_history))
    ELSE conversation_history

\* the messages of the request, after the system prompt
RequestMessages(current_plan, user_message, conversation_history) ==
    <<Message("user", "plan_context"), Message("assistant", "I understand the current travel plan. What changes would you like to make?")>>
    \o RecentHistory(conversation_history)
    \o <<Message("user", user_message)>>

\* a normalisation that wraps the transportation whatever it is
EnsureTransportationList_Always(modified_plan) ==
    IF "transportation" \in DOMAIN modified_plan
    THEN MergeDicts(modified_plan, [transportation |-> List(<<modified_plan["transportation"]>>)])
    ELSE modified_plan

\* "Ensure transportation is a list"
EnsureTransportationList(modified_plan) ==
    IF "transportation" \in DOMAIN modified_plan /\ ~IsList(modified_plan["transportation"])
    THEN MergeDicts(modified_plan, [transportation |-> List(<<modified_plan["transportation"]>>)])
    ELSE modified_plan

\* the merge the other way round: {**modified_plan, **current_plan}
MergedPlan_PriorWins(current_plan, modified_plan) ==
    Obj(MergeDicts(EnsureTransportationList(modified_plan), current_plan.v))

\* merged_plan = {**current_plan, **modified_plan}
MergedPlan(current_plan, modified_plan) ==
    Obj(MergeDicts(current_plan.v, EnsureTransportationList(modified_plan)))

Updated(current_plan, modified_plan) ==
    [success |-> TRUE, plan |-> MergedPlan(current_plan, modified_plan.v), message |-> MsgUpdated,
     current_plan |-> current_plan]

Failed(current_plan, message) ==
    [success |-> FALSE, plan |-> current_plan, message |-> message, current_plan |-> current_plan]

\* a handler that treats a reply it cannot read as an edit that changes nothing
ModifyItinerary_Lenient(current_plan, user_message, conversation_history, reply) ==
    IF reply.kind # "text" THEN Failed(current_plan, MsgWentWrong)
    ELSE IF JsonParses(reply.content)
    THEN IF IsDict(JsonLoads(reply.content))
         THEN Updated(current_plan, JsonLoads(reply.content))
         ELSE Failed(current_plan, MsgWentWrong)
    ELSE IF RegexMatches(reply.content) /\ JsonParses(RegexGroup(reply.content))
    THEN Updated(current_plan, JsonLoads(RegexGroup(reply.content)))
    ELSE Updated(current_plan, Obj(EmptyDict))

ModifyItinerary(current_plan, user_message, conversation_history, reply) ==
    IF reply.kind # "text" THEN Failed(current_plan, MsgWentWrong)
    ELSE IF JsonParses(reply.content)
    THEN IF IsDict(JsonLoads(reply.content))
         THEN Updated(current_plan, JsonLoads(reply.content))
         ELSE Failed(current_plan, MsgWentWrong)
    ELSE IF RegexMatches(reply.content) /\ JsonParses(RegexGroup(reply.content))
    THEN Updated(current_plan, JsonLoads(RegexGroup(reply.content)))
    ELSE Failed(current_plan, MsgTrouble)

(***************************************************************************)
(* Inputs of a generation: requests, provider answers, drafter replies.    *)
(***************************************************************************)
StartDate == [y |-> Year, m |-> 6, d |-> 30]

\* the longest span of dates validate_inputs lets through
MaxTripDays == 30

Flight(airline, number, price) ==
    Obj([airline |-> Str(airline), flight_number |-> Str(number), departure_time |-> Str("08:15"),
         arrival_time |-> Str("20:40"), duration |-> Str("7h 25m"), price |-> Num(price),
         currency |-> Str("USD"), class_type |-> Str("economy"), stops |-> Num(0)])

SelectedFlight == Flight("Delta", "DL404", 640)
CheapFlight == Flight("Spirit", "NK12", 150)
BandFlight == Flight("United", "UA57", 420)

\* trip type, flight class and hotel price ceiling of a request
Preferences ==
    {[trip_type |-> "return", flight_class |-> Str("economy"), hotel_price_max |-> 100],
     [trip_type |-> "one_way", flight_class |-> Str("business"), hotel_price_max |-> 400]}

\* classes and ceilings on and around the thresholds of the plan type rule
BoundaryPreferences ==
    {[trip_type |-> "return", flight_class |-> Str(class), hotel_price_max |-> ceiling] :
        class \in {"economy", "premium_economy", "first"}, ceiling \in {150, 300}}
    \cup {[trip_type |-> "return", flight_class |-> Str("premium_economy"), hotel_price_max |-> 100],
          [trip_type |-> "return", flight_class |-> Str("first"), hotel_price_max |-> 301]}

\* the requests: short trips under every preference, address and selection; a two-day trip
\* under the boundary preferences; the longest trip the form accepts
Requests ==
    LET Request(n, p, address, selected) ==
            [source |-> Str("NYC"), destination |-> Str("Paris"),
             start_date |-> StartDate, end_date |-> FromOrdinal(Ordinal(StartDate) + n),
             travelers |-> 2, trip_type |-> p.trip_type, flight_class |-> p.flight_class,
             flight_price_min |-> 200, flight_price_max |-> 2000,
             hotel_address |-> address, hotel_price_min |-> 50, hotel_price_max |-> p.hotel_price_max,
             selected_flight |-> selected]
    IN  {Request(n, p, address, selected) :
            n \in 0..MaxSpan, p \in Preferences, address \in {None, Str("Le Marais")},
            selected \in {None, SelectedFlight}}
        \cup {Request(1, p, None, None) : p \in BoundaryPreferences}
        \cup {Request(MaxTripDays, p, None, None) : p \in Preferences}

Place(rating, vicinity) ==
    Obj([name |-> Str("Louvre Museum"), place_id |-> Str("p1"), types |-> List(<< >>),
         rating |-> Num(rating), user_ratings_total |-> Num(100 * rating),
         location |-> Obj(EmptyDict), vicinity |-> Str(vicinity), price_level |-> None])

Envs ==
    [geo : {"coords"}, flights_raise : {FALSE},
     flights : {<< >>, <<BandFlight>>, <<CheapFlight, BandFlight>>},
     places_fail : {FALSE},
     places : {<< >>, <<Place(3, "Rue A"), Place(5, "Rue de Rivoli")>>}]
    \cup
    [geo : {"empty"}, flights_raise : {FALSE},
     flights : {<< >>, <<BandFlight>>, <<CheapFlight, BandFlight>>, <<CheapFlight>>},
     places_fail : {FALSE}, places : {<<Place(3, "Rue A"), Place(5, "Rue de Rivoli")>>}]
    \cup
    [geo : {"coords", "error"}, flights_raise : {TRUE}, flights : {<< >>},
     places_fail : {TRUE}, places : {<< >>}]

\* what the draft may say about the transportation
DraftTransportations ==
    {Obj([type |-> Str("flight"), airline |-> Str("Air France"), estimated_price |-> Num(900),
          duration |-> Str("8h")]),
     Obj([type |-> Str("flight"), airline |-> Str("Air France"), estimated_price |-> Num(0),
          price |-> Num(880)]),
     List(<< >>)}

DraftAccommodations ==
    {Obj([name |-> Str("Hotel Lutetia"), address |-> Str("45 Bd Raspail"), price_per_night |-> Num(180),
          check_in |-> Str("2025-01-01"), check_out |-> Str("2025-01-09"), nights |-> Num(8)])}

Attraction == Obj([name |-> Str("Louvre"), type |-> Str("attraction"), time |-> Str("morning")])
Untimed == Obj([name |-> Str("Bistro"), type |-> Str("restaurant")])
Nameless == Obj([type |-> Str("attraction"), time |-> Str("morning")])
NotARecord == Str("free time")

DraftDay(day_number, morning) ==
    LET base == [date |-> Str("2025-07-01"), morning |-> List(morning),
                 afternoon |-> List(<< >>), evening |-> List(<<Untimed>>)]
    IN  IF day_number = 0 THEN Obj(base) ELSE Obj(MergeDicts(base, [day_number |-> Num(day_number)]))

MaxDraftDays == MaxSpan + 1

\* how a draft numbers its days: not at all, 1..n, 2..n+1, or every day 1
Numberings == {"none", "right", "shifted", "same"}
DayNumber(numbering, i) ==
    CASE numbering = "none" -> 0
      [] numbering = "right" -> i
      [] numbering = "shifted" -> i + 1
      [] OTHER -> 1

DraftItineraries ==
    {List([i \in 1..n |-> DraftDay(DayNumber(numbering, i), <<Attraction>>)]) :
        n \in 0..MaxDraftDays, numbering \in Numberings}
    \cup {List(<<DraftDay(1, morning)>>) :
            morning \in {<< >>, <<Nameless, Attraction>>, <<NotARecord>>,
                         <<Obj([name |-> Str("Seine walk"), type |-> Str("activity"), time |-> Str("morning"),
                                rating |-> Num(2), location |-> Str("Quai de Conti")])>>}}

Optional(key, values) == {<< >>} \cup {<<Member(key, val)>> : val \in values}

\* the replies of the drafter: well-formed objects, broken texts, failures
DraftTexts ==
    {<<LBrace>> \o t \o a \o i \o <<Member("summary", Str("A week in Paris")), RBrace>> :
        t \in Optional("transportation", DraftTransportations),
        a \in Optional("accommodation", DraftAccommodations),
        i \in Optional("itinerary", DraftItineraries)}
    \cup {<<LBrace, Member("plan_type", Str("comfort")), Member("summary", Str("A week in Paris")), RBrace>>,
          <<LBrace, Member("plan_type", Str("budget")), Member("source", Str("Lyon")),
            Member("destination", Str("Rome")), Member("start_date", Str("2024-01-01")),
            Member("end_date", Str("2024-01-09")), Member("duration_days", Num(9)),
            Member("travelers", Num(5)), Member("summary", Str("A week in Paris")), RBrace>>}
    \cup {<<Prose, LBrace, RBrace>>, <<LBrace, Member("summary", Str("A week in Paris"))>>, <<Scalar>>}

DraftReplies == {ApiError, NoContent} \cup {Text(c) : c \in DraftTexts}

(***************************************************************************)
(* The generation specification: a request, a drafter reply and the        *)
(* providers' answers are drawn; Generate runs generate_travel_plan.       *)
(***************************************************************************)
NoRequest == [source |-> None, destination |-> None, start_date |-> StartDate, end_date |-> StartDate,
              travelers |-> 0, trip_type |-> "", flight_class |-> None, flight_price_min |-> 0,
              flight_price_max |-> 0, hotel_address |-> None, hotel_price_min |-> 0,
              hotel_price_max |-> 0, selected_flight |-> None]
NoEnv == [geo |-> "", flights_raise |-> FALSE, flights |-> << >>, places_fail |-> FALSE, places |-> << >>]
NoResult == [success |-> FALSE, plan |-> None, message |-> "", current_plan |-> None]
NoAdapter == [kind |-> "none", use_mock_data |-> FALSE, pc |-> "idle", upstream |-> "",
              result |-> << >>, synthetic |-> FALSE, raised |-> FALSE]

SessionIdle ==
    /\ banner = ""
    /\ current_travel_plan = None
    /\ current_plan_dict = None
    /\ chat_messages = << >>
    /\ chat_history = << >>
    /\ pc = "idle"
    /\ user_input = ""
    /\ prior_dict = None
    /\ prior_plan = None
    /\ last_reply = NoContent
    /\ result = NoResult
    /\ provider_calls = {}
    /\ sent = << >>

GenInit ==
    /\ config = [llm_key |-> TRUE, places_key |-> TRUE]
    /\ SessionIdle
    /\ request \in Requests
    /\ draft_reply \in DraftReplies
    /\ env \in Envs
    /\ gen_pc = "ready"
    /\ plan_out = None
    /\ drafter_calls = 0
    /\ adapter = NoAdapter

GenRun ==
    /\ gen_pc = "ready"
    /\ plan_out' = GenerateTravelPlan(request, draft_reply, env)
    /\ drafter_calls' = drafter_calls + DrafterCalls(request, draft_reply, env)
    /\ gen_pc' = "done"
    /\ UNCHANGED <<request, draft_reply, env>>
    /\ UNCHANGED <<session_vars, adapter>>

GenNext == GenRun

GenSpec == GenInit /\ [][GenNext]_vars

(***************************************************************************)
(* The itinerary tab of app.py: the Generate button, the chat input, the   *)
(* Clear Chat and New Itinerary buttons.                                   *)
(***************************************************************************)
Today == [y |-> Year, m |-> 6, d |-> 29]
HistoryCap == 10

\* validate_inputs: the error message, "" for None
ValidateInputs(source, destination, start_date, end_date) ==
    IF ~Truthy(source) THEN "Please select a source location"
    ELSE IF ~Truthy(destination) THEN "Please select a destination"
    ELSE IF Ordinal(start_date) < Ordinal(Today) THEN "Start date cannot be in the past"
    ELSE IF Ordinal(end_date) <= Ordinal(start_date) THEN "End date must be after start date"
    ELSE IF DaysBetween(end_date, start_date) > MaxTripDays THEN "Maximum trip duration is 30 days"
    ELSE IF DaysBetween(end_date, start_date) < 1 THEN "Trip must be at least 1 day"
    ELSE ""

\* a validate_config that lets a missing LLM key pass
ValidateConfigRaises_Never(c) == FALSE

\* config.validate_config raises
ValidateConfigRaises(c) == ~c.llm_key

\* TravelPlanner() raises: LLMClient, PlacesClient and GeocodingService each need their key
PlannerInitRaises(c) == ~c.llm_key \/ ~c.places_key

\* what the form holds when Generate is pressed
Forms ==
    {[source |-> source, destination |-> Str("Paris"), start_date |-> FromOrdinal(Ordinal(StartDate) + shift),
      end_date |-> FromOrdinal(Ordinal(StartDate) + span)] :
        source \in {Str(""), Str("NYC")}, shift \in {-2, 0}, span \in {0, 1, MaxTripDays + 1}}

\* the fields the TravelRequest model declares
TravelRequestFields ==
    {"source", "destination", "start_date", "end_date", "travelers", "trip_type", "flight_class",
     "flight_price_min", "flight_price_max", "hotel_address", "hotel_price_min", "hotel_price_max",
     "selected_flight"}

\* TravelRequest(...) as the handler builds it: the model keeps the keywords it declares
TravelRequest(form, selected, hotel) ==
    LET kwargs == [source |-> form.source, destination |-> form.destination,
                   start_date |-> form.start_date, end_date |-> form.end_date,
                   travelers |-> 2, trip_type |-> "return", flight_class |-> Str("economy"),
                   flight_price_min |-> 200, flight_price_max |-> 2000,
                   hotel_address |-> None, hotel_price_min |-> 50, hotel_price_max |-> 100,
                   selected_flight |-> selected, selected_hotel |-> hotel]
    IN  [f \in TravelRequestFields \cap DOMAIN kwargs |-> kwargs[f]]

SessionDraftReplies ==
    {Text(<<LBrace,
            Member("transportation", Obj([type |-> Str("flight"), airline |-> Str("Air France"),
                                          estimated_price |-> Num(900)])),
            Member("accommodation", Obj([name |-> Str("Hotel Lutetia"), address |-> Str("45 Bd Raspail")])),
            Member("itinerary", List(<<DraftDay(1, <<Attraction>>), DraftDay(2, <<Attraction>>)>>)),
            RBrace>>),
     Text(<<Prose, LBrace, RBrace>>)}

\* st.session_state.selected_flight: no flight was picked in the Flights tab
SessionSelections == {None}

\* final_selected_hotel: the hotel looked up or picked in the Hotels tab, if any
SelectedHotel ==
    Obj([name |-> Str("Hotel du Louvre"), address |-> Str("Place Andre Malraux"), rating |-> Num(4),
         latitude |-> Num(48), longitude |-> Num(2), place_id |-> Str("h1")])
SessionHotels == {None, SelectedHotel}

SessionEnv ==
    [geo |-> "coords", flights_raise |-> FALSE, flights |-> <<BandFlight>>,
     places_fail |-> FALSE, places |-> << >>]

\* what the model may answer to an edit
UserInputs == {"Make day 1 more relaxed"}

EditMembers ==
    {Member("itinerary",
            List(<<Obj([date |-> Str("2025-07-01"), day_number |-> Num(2), morning |-> List(<<Attraction>>),
                        afternoon |-> List(<< >>), evening |-> List(<< >>)])>>)),
     Member("transportation",
            Obj([type |-> Str("train"), from_location |-> Str("NYC"), to_location |-> Str("Paris"),
                 departure_date |-> Str("2025-06-30"), arrival_date |-> Str("2025-07-01")])),
     Member("duration_days", Str("five"))}

Tokens == {LBrace, RBrace, Prose} \cup EditMembers

\* every text of at most MaxContentLen tokens, and the bare scalar
Texts == {<<Scalar>>} \cup UNION {[1..n -> Tokens] : n \in 0..MaxContentLen}

EditReplies == {ApiError, NoContent} \cup {Text(c) : c \in Texts}

\* replies that give back what the plan record already holds under some of its keys
EchoedKeys == {"transportation", "summary"}
EchoReplies(current_plan) ==
    {Text(<<LBrace>> \o keys \o <<RBrace>>) :
        keys \in {<<Member(k, current_plan.v[k])>> : k \in EchoedKeys \cap DOMAIN current_plan.v}}

MsgDone == "Done! I've updated your itinerary based on your request. Take a look at the changes above!"
MsgFormatting == "I modified the plan but encountered a formatting issue. Could you try rephrasing your request?"
MsgNotConfigured == "Sorry, the LLM service is not configured. Please check your API keys."
HistoryDone == "Done! I've updated the itinerary."

\* chat_history[-10:] when it is longer than 10
Trim(history) ==
    IF Len(history) > HistoryCap THEN SubText(history, Len(history) - HistoryCap + 1, Len(history))
    ELSE history

Init ==
    /\ config \in [llm_key : BOOLEAN, places_key : BOOLEAN]
    /\ SessionIdle
    /\ request = NoRequest
    /\ draft_reply = NoContent
    /\ env = NoEnv
    /\ gen_pc = "idle"
    /\ plan_out = None
    /\ drafter_calls = 0
    /\ adapter = NoAdapter

\* a Generate handler that leaves the conversation in place when it stores a new plan
GenerateWith_KeepsChat(form, selected, hotel, reply) ==
    /\ pc = "idle"
    /\ LET error == ValidateInputs(form.source, form.destination, form.start_date, form.end_date)
           travel_request == TravelRequest(form, selected, hotel)
           plan == GenerateTravelPlan(travel_request, reply, SessionEnv)
           stopped == error # "" \/ ValidateConfigRaises(config) \/ PlannerInitRaises(config)
           failed == stopped \/ plan = None
       IN  /\ provider_calls' = IF stopped THEN {} ELSE ProviderCalls(travel_request, reply, SessionEnv)
           /\ banner' = IF error # "" THEN error
                        ELSE IF ValidateConfigRaises(config) THEN "Configuration Error"
                        ELSE IF PlannerInitRaises(config) THEN "An error occurred"
                        ELSE IF plan = None THEN "Failed to generate travel plan. Please check your API keys and try again."
                        ELSE ""
           /\ current_travel_plan' = IF failed THEN current_travel_plan ELSE plan
           /\ current_plan_dict' = IF failed THEN current_plan_dict ELSE ModelDump(plan)
           /\ UNCHANGED <<chat_messages, chat_history>>
    /\ UNCHANGED <<config, pc, user_input, prior_dict, prior_plan, last_reply, result, sent>>
    /\ UNCHANGED <<gen_vars, adapter>>

\* the Generate Itinerary button (app.py 680-748), pressed with the form, the selected flight
\* and hotel of the session, and the drafter answering reply
GenerateWith(form, selected, hotel, reply) ==
    /\ pc = "idle"
    /\ LET error == ValidateInputs(form.source, form.destination, form.start_date, form.end_date)
           travel_request == TravelRequest(form, selected, hotel)
           plan == GenerateTravelPlan(travel_request, reply, SessionEnv)
           stopped == error # "" \/ ValidateConfigRaises(config) \/ PlannerInitRaises(config)
           failed == stopped \/ plan = None
       IN  /\ provider_calls' = IF stopped THEN {} ELSE ProviderCalls(travel_request, reply, SessionEnv)
           /\ banner' = IF error # "" THEN error
                        ELSE IF ValidateConfigRaises(config) THEN "Configuration Error"
                        ELSE IF PlannerInitRaises(config) THEN "An error occurred"
                        ELSE IF plan = None THEN "Failed to generate travel plan. Please check your API keys and try again."
                        ELSE ""
           /\ current_travel_plan' = IF failed THEN current_travel_plan ELSE plan
           /\ current_plan_dict' = IF failed THEN current_plan_dict ELSE ModelDump(plan)
           /\ chat_messages' = IF failed THEN chat_messages ELSE << >>
           /\ chat_history' = IF failed THEN chat_history ELSE << >>
    /\ UNCHANGED <<config, pc, user_input, prior_dict, prior_plan, last_reply, result, sent>>
    /\ UNCHANGED <<gen_vars, adapter>>

Generate ==
    \E form \in Forms, selected \in SessionSelections, hotel \in SessionHotels, reply \in SessionDraftReplies :
        GenerateWith(form, selected, hotel, reply)

\* the chat input is submitted: the user's message is shown and the model is asked (app.py 778-796)
EditRequestWith(inputs, max_messages) ==
    /\ pc = "idle"
    /\ current_travel_plan # None
    /\ Len(chat_messages) < max_messages
    /\ \E u \in inputs :
        /\ user_input' = u
        /\ chat_messages' = Append(chat_messages, Message("user", u))
        /\ sent' = IF config.llm_key THEN RequestMessages(current_plan_dict, u, chat_history) ELSE << >>
    /\ prior_dict' = current_plan_dict
    /\ prior_plan' = current_travel_plan
    /\ pc' = "pending"
    /\ banner' = ""
    /\ provider_calls' = {}
    /\ UNCHANGED <<config, current_travel_plan, current_plan_dict, chat_history, last_reply, result>>
    /\ UNCHANGED <<gen_vars, adapter>>

EditRequest == EditRequestWith(UserInputs, 2 * MaxEdits)

\* an edit taken as soon as modify_itinerary reports success
Accepted_Unchecked(r) == r.success

\* the edit is accepted: modify_itinerary succeeded and TravelPlan(**updated_plan_dict) did not raise
Accepted(r) == r.success /\ TravelPlan_OK(r.plan.v)

\* the record stored before it is validated
StoredPlanDict_Unvalidated(r) == IF r.success THEN r.plan ELSE r.current_plan

\* st.session_state.current_plan_dict after the handler; the object handed to modify_itinerary
\* stays in place unless the accepted record replaces it
StoredPlanDict(r) == IF Accepted(r) THEN r.plan ELSE r.current_plan

\* a handler that stores the accepted record and leaves the plan object as it was
StoredTravelPlan_Stale(r, current) == current

\* st.session_state.current_travel_plan after the handler
StoredTravelPlan(r, current) == IF Accepted(r) THEN TravelPlan(r.plan.v) ELSE current

\* a handler that records the exchange as soon as modify_itinerary reports success
StoredHistory_Unchecked(r, history, u) ==
    IF r.success
    THEN Trim(history \o <<Message("user", u), Message("assistant", HistoryDone)>>)
    ELSE history

\* st.session_state.chat_history after the handler
StoredHistory(r, history, u) ==
    IF Accepted(r)
    THEN Trim(history \o <<Message("user", u), Message("assistant", HistoryDone)>>)
    ELSE history

\* the assistant message the handler adds to chat_messages
AssistantMessage(r) ==
    IF Accepted(r) THEN MsgDone ELSE IF r.success THEN MsgFormatting ELSE r.message

\* the model has answered: the rest of the chat handler (app.py 784-840)
EditResolveWith(replies) ==
    /\ pc = "pending"
    /\ \E reply \in replies :
        LET r == ModifyItinerary(current_plan_dict, user_input, chat_history, reply)
        IN  IF config.llm_key
            THEN /\ last_reply' = reply
                 /\ result' = r
                 /\ current_plan_dict' = StoredPlanDict(r)
                 /\ current_travel_plan' = StoredTravelPlan(r, current_travel_plan)
                 /\ chat_history' = StoredHistory(r, chat_history, user_input)
                 /\ chat_messages' = Append(chat_messages, Message("assistant", AssistantMessage(r)))
                 /\ pc' = IF Accepted(r) THEN "applied" ELSE "rejected"
            ELSE /\ chat_messages' = Append(chat_messages, Message("assistant", MsgNotConfigured))
                 /\ pc' = "rejected"
                 /\ UNCHANGED <<last_reply, result, current_plan_dict, current_travel_plan, chat_history>>
    /\ UNCHANGED <<config, banner, user_input, prior_dict, prior_plan, provider_calls, sent>>
    /\ UNCHANGED <<gen_vars, adapter>>

EditResolve == EditResolveWith(EditReplies \cup EchoReplies(current_plan_dict))

\* st.rerun() at the end of the chat handler: the page is drawn again and waits for input
Rerun ==
    /\ pc \in {"applied", "rejected"}
    /\ pc' = "idle"
    /\ user_input' = ""
    /\ prior_dict' = None
    /\ prior_plan' = None
    /\ last_reply' = NoContent
    /\ sent' = << >>
    /\ result' = NoResult
    /\ UNCHANGED <<config, banner, current_travel_plan, current_plan_dict, chat_messages, chat_history,
                   provider_calls>>
    /\ UNCHANGED <<gen_vars, adapter>>

\* the Clear Chat button (app.py 845-848)
ClearChat ==
    /\ pc = "idle"
    /\ current_travel_plan # None
    /\ chat_messages' = << >>
    /\ chat_history' = << >>
    /\ banner' = ""
    /\ provider_calls' = {}
    /\ UNCHANGED <<config, current_travel_plan, current_plan_dict, pc, user_input, prior_dict, prior_plan,
                   last_reply, result, sent>>
    /\ UNCHANGED <<gen_vars, adapter>>

\* the New Itinerary button (app.py 850-855)
NewItinerary ==
    /\ pc = "idle"
    /\ current_travel_plan # None
    /\ current_travel_plan' = None
    /\ current_plan_dict' = None
    /\ chat_messages' = << >>
    /\ chat_history' = << >>
    /\ banner' = ""
    /\ provider_calls' = {}
    /\ UNCHANGED <<config, pc, user_input, prior_dict, prior_plan, last_reply, result, sent>>
    /\ UNCHANGED <<gen_vars, adapter>>

Next == Generate \/ EditRequest \/ EditResolve \/ Rerun \/ ClearChat \/ NewItinerary

Spec == Init /\ [][Next]_vars

(***************************************************************************)
(* A long conversation about one plan: the same handlers, with two user    *)
(* messages and two kinds of reply (an edit that validates and one that    *)
(* does not), so that chat_history grows past the                          *)
(* window of modify_itinerary and past the cap of the chat handler.  The   *)
(* plan is generated in a session that holds none.                         *)
(***************************************************************************)
ChatInit == Init /\ config = [llm_key |-> TRUE, places_key |-> TRUE]

ChatGenerate ==
    /\ current_travel_plan = None
    /\ \E form \in {f \in Forms : ValidateInputs(f.source, f.destination, f.start_date, f.end_date) = ""},
          reply \in {r \in SessionDraftReplies : JsonParses(r.content)} :
           GenerateWith(form, None, None, reply)

ChatEditRequest == EditRequestWith({"Make day 1 more relaxed", "Add a museum"}, 2 * MaxChatEdits)

ChatEditResolve ==
    EditResolveWith({Text(<<LBrace, RBrace>>), Text(<<LBrace, Member("duration_days", Str("five")), RBrace>>)})

ChatNext == ChatGenerate \/ ChatEditRequest \/ ChatEditResolve \/ Rerun \/ ClearChat \/ NewItinerary

ChatSpec == ChatInit /\ [][ChatNext]_vars

(***************************************************************************)
(* The provider adapters on their own: an instance is constructed, with    *)
(* or without a working Amadeus client, and queried again and again while  *)
(* the upstream service answers or fails.                                  *)
(***************************************************************************)
MockFlightsMin == 8
MockFlightsMax == 12
MockHotelsMin == 8
MockHotelsMax == 15

\* a sort that leaves the list as it was built
SortBy_Unsorted(offers, key) == offers

\* list.sort(key=lambda x: x[key]): stable, ascending
RECURSIVE SortBy(_, _)
SortBy(offers, key) ==
    IF Len(offers) <= 1 THEN offers
    ELSE LET x == Head(offers)
             rest == SortBy(Tail(offers), key)
             k == Cardinality({i \in 1..Len(rest) : rest[i][key] < x[key]})
         IN  SubSeq(rest, 1, k) \o <<x>> \o SubSeq(rest, k + 1, Len(rest))

\* _generate_mock_flights: one offer per draw of the price variation (in percent)
GenerateMockFlights(class_type, return_date, passengers, variations) ==
    LET base_price == IF class_type = "business" THEN 1200 ELSE 300
        price_multiplier == IF return_date THEN 185 ELSE 100
        flight_data(i) ==
            [airline |-> "Delta Air Lines", currency |-> "USD", class_type |-> class_type,
             price |-> (base_price * variations[i] * price_multiplier * passengers) \div 10000,
             trip_type |-> IF return_date THEN "return" ELSE "one_way"]
    IN  SortBy([i \in 1..Len(variations) |-> flight_data(i)], "price")

\* _generate_mock_hotels: one offer per draw of the nightly price
GenerateMockHotels(nights, rooms, prices) ==
    LET hotel_data(i) ==
            [hotel_id |-> "MOCK", currency |-> "USD", price_per_night |-> prices[i],
             total_price |-> prices[i] * nights * rooms]
    IN  SortBy([i \in 1..Len(prices) |-> hotel_data(i)], "price_per_night")

\* an except clause that only takes the SDK's ResponseError
Caught_ResponseErrorOnly(outcome) == outcome = "response_error"

\* the except clauses of a query: ResponseError and every other Exception
Caught(outcome) == outcome \in {"response_error", "exception"}

\* FlightsClient.search_flights
AdapterSearchFlights ==
    /\ adapter.kind = "flights" /\ adapter.pc = "idle"
    /\ \E class_type \in {"economy", "business"}, return_date \in BOOLEAN,
          upstream \in IF adapter.use_mock_data THEN {"not_called"}
                       ELSE {"data", "response_error", "exception"} :
          LET parsed == SortBy(<<[airline |-> "Air France", currency |-> "USD", class_type |-> class_type,
                                  price |-> 420, trip_type |-> "one_way"],
                                 [airline |-> "United", currency |-> "USD", class_type |-> class_type,
                                  price |-> 150, trip_type |-> "one_way"]>>, "price")
              Returned(offers, synthetic) ==
                  adapter' = [adapter EXCEPT !.pc = "returned", !.upstream = upstream,
                                             !.result = offers, !.synthetic = synthetic]
          IN  IF adapter.use_mock_data \/ Caught(upstream)
              THEN \E n \in MockFlightsMin..MockFlightsMax : \E variations \in [1..n -> {70, 130}] :
                      Returned(GenerateMockFlights(class_type, return_date, 1, variations), TRUE)
              ELSE IF upstream = "data" THEN Returned(parsed, FALSE)
              ELSE adapter' = [adapter EXCEPT !.pc = "returned", !.upstream = upstream, !.raised = TRUE]
    /\ UNCHANGED <<session_vars, gen_vars>>

\* HotelsClient.search_hotels
AdapterSearchHotels ==
    /\ adapter.kind = "hotels" /\ adapter.pc = "idle"
    /\ \E upstream \in IF adapter.use_mock_data THEN {"not_called"}
                       ELSE {"data", "no_hotels", "response_error", "exception"} :
          LET parsed == SortBy(<<[hotel_id |-> "H2", currency |-> "USD", price_per_night |-> 220,
                                  total_price |-> 440],
                                 [hotel_id |-> "H1", currency |-> "USD", price_per_night |-> 90,
                                  total_price |-> 180]>>, "price_per_night")
              Returned(offers, synthetic) ==
                  adapter' = [adapter EXCEPT !.pc = "returned", !.upstream = upstream,
                                             !.result = offers, !.synthetic = synthetic]
          IN  IF adapter.use_mock_data \/ upstream = "no_hotels" \/ Caught(upstream)
              THEN \E n \in MockHotelsMin..MockHotelsMax : \E prices \in [1..n -> {60, 1040}] :
                      Returned(GenerateMockHotels(2, 1, prices), TRUE)
              ELSE IF upstream = "data" THEN Returned(parsed, FALSE)
              ELSE adapter' = [adapter EXCEPT !.pc = "returned", !.upstream = upstream, !.raised = TRUE]
    /\ UNCHANGED <<session_vars, gen_vars>>

\* PlacesClient.search_places: the places found, [] when the call fails
AdapterSearchPlaces ==
    /\ adapter.kind = "places" /\ adapter.pc = "idle"
    /\ \E upstream \in {"results", "zero_results", "response_error", "exception"} :
          adapter' = [adapter EXCEPT !.pc = "returned", !.upstream = upstream,
                                     !.result = IF upstream = "results" THEN <<Place(5, "Rue de Rivoli")>>
                                                ELSE << >>,
                                     !.raised = ~(upstream \in {"results", "zero_results"} \/ Caught(upstream))]
    /\ UNCHANGED <<session_vars, gen_vars>>

\* GeocodingService.geocode: coordinates, None when nothing is found or the call fails
AdapterGeocode ==
    /\ adapter.kind = "geocoding" /\ adapter.pc = "idle"
    /\ \E upstream \in {"results", "zero_results", "response_error", "exception"} :
          adapter' = [adapter EXCEPT !.pc = "returned", !.upstream = upstream,
                                     !.result = IF upstream = "results" THEN Coords ELSE None,
                                     !.raised = ~(upstream \in {"results", "zero_results"} \/ Caught(upstream))]
    /\ UNCHANGED <<session_vars, gen_vars>>

\* the caller takes the answer; the instance, with its flag, stays for the next query
AdapterReturn ==
    /\ adapter.pc = "returned"
    /\ adapter' = [NoAdapter EXCEPT !.kind = adapter.kind, !.use_mock_data = adapter.use_mock_data]
    /\ UNCHANGED <<session_vars, gen_vars>>

\* the constructors: use_mock_data is False only when the Amadeus client was built
AdapterInit ==
    /\ config = [llm_key |-> TRUE, places_key |-> TRUE]
    /\ SessionIdle
    /\ request = NoRequest
    /\ draft_reply = NoContent
    /\ env = NoEnv
    /\ gen_pc = "idle"
    /\ plan_out = None
    /\ drafter_calls = 0
    /\ \E kind \in {"flights", "hotels", "places", "geocoding"}, client \in BOOLEAN :
          adapter = [NoAdapter EXCEPT !.kind = kind,
                                      !.use_mock_data = kind \in {"flights", "hotels"} /\ ~client]

AdapterNext ==
    AdapterSearchFlights \/ AdapterSearchHotels \/ AdapterSearchPlaces \/ AdapterGeocode \/ AdapterReturn

AdapterSpec == AdapterInit /\ [][AdapterNext]_vars

(***************************************************************************)
(* Properties of the chat handler.                                         *)
(***************************************************************************)

\* C1: when the reply to an edit is a text that is neither JSON nor holds an object between
\* its first '{' and its last '}', modify_itinerary returns success = false with a message and
\* the prior record, the stored plan and record are the ones held before the edit, and on no
\* path is the record handed to modify_itinerary changed by the call.
C1_UnreadableReplyKeepsPlan ==
    pc \in {"applied", "rejected"} =>
        /\ result.current_plan = prior_dict
        /\ LET c == last_reply.content
               opens == {i \in 1..Len(c) : c[i].tok = "{"}
               closes == {j \in 1..Len(c) : c[j].tok = "}"}
               AllMembers(i, j) == \A k \in (i + 1)..(j - 1) : c[k].tok = "member"
               whole == \/ Len(c) = 1 /\ c[1].tok = "scalar"
                        \/ Len(c) >= 2 /\ c[1].tok = "{" /\ c[Len(c)].tok = "}" /\ AllMembers(1, Len(c))
               embedded == \E i \in opens, j \in closes :
                              /\ \A k \in opens : i <= k
                              /\ \A k \in closes : k <= j
                              /\ i < j
                              /\ AllMembers(i, j)
           IN  (last_reply.kind = "text" /\ ~whole /\ ~embedded) =>
                   /\ result.success = FALSE
                   /\ result.message = MsgTrouble
                   /\ result.plan = prior_dict
                   /\ current_plan_dict = prior_dict
                   /\ current_travel_plan = prior_plan
                   /\ pc = "rejected"

C1_Witness ==
    /\ pc = "rejected"
    /\ last_reply.kind = "text"
    /\ \E i \in 1..Len(last_reply.content) : last_reply.content[i].tok = "{"
    /\ \E i \in 1..Len(last_reply.content) : last_reply.content[i].tok = "member"
    /\ result.message = MsgTrouble
    /\ current_plan_dict = prior_dict

\* C2: when modify_itinerary reports success and the merged record fails the TravelPlan
\* validation, the handler leaves current_travel_plan, current_plan_dict and chat_history as
\* they were and adds the assistant's failure message to the chat.
C2_InvalidEditChangesNothing ==
    [][(pc = "pending" /\ result'.success /\ ~TravelPlan_OK(result'.plan.v)) =>
          /\ current_travel_plan' = current_travel_plan
          /\ current_plan_dict' = current_plan_dict
          /\ chat_history' = chat_history
          /\ chat_messages' = Append(chat_messages, Message("assistant", MsgFormatting))
          /\ pc' = "rejected"]_vars

C2_Witness ==
    /\ pc = "rejected"
    /\ result.success
    /\ ~TravelPlan_OK(result.plan.v)
    /\ result.plan # prior_dict
    /\ current_plan_dict = prior_dict
    /\ chat_messages[Len(chat_messages)] = Message("assistant", MsgFormatting)

\* C3: an edit goes Idle -> Pending -> Applied or Rejected -> Idle; the current plan changes
\* during an edit only on the step into Applied and then to a record that passed validation;
\* while Pending and after Rejected it is the plan held before the request; and a pending
\* edit can always be resolved and a resolved one can always return to Idle.
C3_EditLifecycle ==
    /\ [][/\ pc = "idle" => pc' \in {"idle", "pending"}
          /\ pc = "pending" => pc' \in {"applied", "rejected"}
          /\ pc \in {"applied", "rejected"} => pc' = "idle"
          /\ pc' = "applied" =>
                /\ TravelPlan_OK(current_plan_dict'.v)
                /\ current_travel_plan' = TravelPlan(current_plan_dict'.v)
          /\ (pc # "idle" /\ <<current_travel_plan, current_plan_dict>>' # <<current_travel_plan, current_plan_dict>>)
                => (pc = "pending" /\ pc' = "applied")
          /\ pc' \in {"pending", "rejected"} =>
                (current_plan_dict' = prior_dict' /\ current_travel_plan' = prior_plan')]_vars
    /\ [](pc = "pending" => ENABLED EditResolve)
    /\ [](pc \in {"applied", "rejected"} => ENABLED Rerun)

C3_Witness ==
    /\ pc = "applied"
    /\ current_plan_dict # prior_dict
    /\ current_travel_plan # prior_plan

\* C8: the current plan always has as many itinerary days as duration_days, numbered by
\* their position from 1.
C8_ItineraryMatchesDuration ==
    current_travel_plan # None =>
        LET itinerary == current_travel_plan.v.itinerary.v
        IN  /\ Len(itinerary) = current_travel_plan.v.duration_days.v
            /\ \A i \in 1..Len(itinerary) : itinerary[i].v.day_number = Num(i)

\* C9: when the reply is a JSON object, the record modify_itinerary returns has, for every
\* key of the reply, the reply's value (a transportation value that is no list wrapped into
\* a one-element list) and, for every other key, the prior value, and no other key.
C9_ShallowMerge ==
    LET c == last_reply.content
        members == 2..(Len(c) - 1)
        isObject == /\ last_reply.kind = "text" /\ Len(c) >= 2 /\ c[1].tok = "{" /\ c[Len(c)].tok = "}"
                    /\ \A i \in members : c[i].tok = "member"
        keys == {c[i].k : i \in members}
        Value(key) == c[CHOOSE i \in members : c[i].k = key /\ \A j \in members : c[j].k = key => j <= i].v
        Wrapped(key) == IF key = "transportation" /\ Value(key).t # "list"
                        THEN List(<<Value(key)>>) ELSE Value(key)
    IN  (pc \in {"applied", "rejected"} /\ isObject) =>
            /\ result.success
            /\ DOMAIN result.plan.v = keys \cup DOMAIN prior_dict.v
            /\ \A key \in DOMAIN result.plan.v :
                  result.plan.v[key] = IF key \in keys THEN Wrapped(key) ELSE prior_dict.v[key]

C9_Witness ==
    /\ pc = "applied"
    /\ last_reply.content[1].tok = "{"
    /\ Len(current_plan_dict.v.itinerary.v) < Len(prior_dict.v.itinerary.v)
    /\ Len(current_plan_dict.v.transportation.v) = 1
    /\ current_plan_dict.v.transportation # prior_dict.v.transportation
    /\ current_plan_dict.v.summary = prior_dict.v.summary

\* C10: when the reply is a text that is not JSON, the result is the one the direct path gives
\* on the text from the first '{' to the last '}' if that text is a JSON object, and the
\* failure result otherwise.
C10_EmbeddedObjectFallback ==
    LET c == last_reply.content
        opens == {i \in 1..Len(c) : c[i].tok = "{"}
        closes == {j \in 1..Len(c) : c[j].tok = "}"}
        first == CHOOSE i \in opens : \A k \in opens : i <= k
        last == CHOOSE j \in closes : \A k \in closes : k <= j
        span == [n \in 1..(last - first + 1) |-> c[first + n - 1]]
        found == opens # {} /\ closes # {} /\ first < last
    IN  (pc \in {"applied", "rejected"} /\ last_reply.kind = "text" /\ ~JsonParses(c)) =>
            IF found /\ JsonParses(span)
            THEN /\ result.success
                 /\ result = ModifyItinerary(prior_dict, user_input, chat_history, Text(span))
            ELSE /\ ~result.success
                 /\ result.message = MsgTrouble
                 /\ result.plan = prior_dict

C10_Witness ==
    /\ pc = "applied"
    /\ last_reply.content[1].tok = "prose"
    /\ result.success
    /\ result.plan # prior_dict
    /\ Len(current_plan_dict.v.transportation.v) = 1

\* C11: an edit whose reply is a JSON object that holds nothing, or only keys of the plan
\* record with the values the record has, is applied and leaves the plan record and the plan
\* as they were; the same reply applied to the outcome gives the outcome again.
C11_NoOpEditKeepsPlan ==
    LET c == last_reply.content
        members == 2..(Len(c) - 1)
        noOp == /\ last_reply.kind = "text" /\ Len(c) >= 2 /\ c[1].tok = "{" /\ c[Len(c)].tok = "}"
                /\ \A i \in members : /\ c[i].tok = "member"
                                       /\ c[i].k \in DOMAIN prior_dict.v
                                       /\ c[i].v = prior_dict.v[c[i].k]
        again == ModifyItinerary(current_plan_dict, user_input, chat_history, last_reply)
    IN  (pc \in {"applied", "rejected"} /\ noOp) =>
            /\ pc = "applied"
            /\ current_plan_dict = prior_dict
            /\ current_travel_plan = prior_plan
            /\ Accepted(again)
            /\ StoredPlanDict(again) = current_plan_dict
            /\ StoredTravelPlan(again, current_travel_plan) = current_travel_plan

C11_Witness ==
    /\ pc = "applied"
    /\ Len(last_reply.content) = 3
    /\ last_reply.content[2].k = "transportation"
    /\ last_reply.content[2].v = prior_dict.v.transportation
    /\ current_travel_plan = prior_plan
    /\ current_travel_plan # None

\* C15: with no LLM key, pressing Generate with a valid form shows the configuration error,
\* asks no provider (drafter, flights, places, geocoding) and leaves the plan, the plan record,
\* the chat and the chat history as they were.
C15_NoCredentialStopsGenerate ==
    [][\A form \in Forms, selected \in SessionSelections, hotel \in SessionHotels, reply \in SessionDraftReplies :
          (/\ ~config.llm_key
           /\ ValidateInputs(form.source, form.destination, form.start_date, form.end_date) = ""
           /\ GenerateWith(form, selected, hotel, reply))
          => /\ banner' = "Configuration Error"
             /\ provider_calls' = {}
             /\ UNCHANGED <<current_travel_plan, current_plan_dict, chat_messages, chat_history>>]_vars

C15_Witness ==
    /\ ~config.llm_key
    /\ pc = "idle"
    /\ banner = "Configuration Error"
    /\ provider_calls = {}
    /\ current_travel_plan = None

\* C16: with an LLM key and no Places key, validate_config passes and pressing Generate with
\* a valid form and a draft that builds into a plan without any enrichment produces a plan.
C16_PlacesKeyOptional ==
    [][\A form \in Forms, selected \in SessionSelections, hotel \in SessionHotels, reply \in SessionDraftReplies :
          (/\ config.llm_key /\ ~config.places_key
           /\ ValidateInputs(form.source, form.destination, form.start_date, form.end_date) = ""
           /\ GenerateTravelPlan(TravelRequest(form, selected, hotel), reply,
                                 [SessionEnv EXCEPT !.geo = "error", !.places_fail = TRUE]) # None
           /\ GenerateWith(form, selected, hotel, reply))
          => /\ ~ValidateConfigRaises(config)
             /\ banner' = ""
             /\ current_travel_plan' # None]_vars

\* C18: the accommodation of a generated plan is located at the request's hotel address when
\* it has one, else at the address of the hotel selected before the request when there is one,
\* else at the address the draft suggests.
C18_HotelLocationPrecedence ==
    [][\A form \in Forms, selected \in SessionSelections, hotel \in SessionHotels, reply \in SessionDraftReplies :
          (GenerateWith(form, selected, hotel, reply) /\ banner' = "" /\ current_travel_plan' # None)
          => LET accommodation == current_travel_plan'.v.accommodation.v
                 hotel_address == TravelRequest(form, selected, hotel).hotel_address
                 c == reply.content
                 Suggested(a) == \A i \in 1..Len(c) :
                                    (c[i].tok = "member" /\ c[i].k = "accommodation"
                                       /\ "address" \in DOMAIN c[i].v.v) => a = c[i].v.v.address
                 Expected(a) == IF Truthy(hotel_address) THEN a = hotel_address
                                ELSE IF hotel # None THEN a = hotel.v.address
                                ELSE Suggested(a)
             IN  Expected(accommodation.location) /\ Expected(accommodation.address)]_vars

\* C28: the current plan is absent exactly when the plan record is absent, and when both are
\* there the record validates against the TravelPlan schema to the current plan.
C28_PlanAndRecordAgree ==
    /\ current_travel_plan = None <=> current_plan_dict = None
    /\ current_plan_dict # None
       => /\ IsDict(current_plan_dict)
          /\ TravelPlan_OK(current_plan_dict.v)
          /\ TravelPlan(current_plan_dict.v) = current_travel_plan

C28_Witness ==
    /\ pc = "applied"
    /\ current_plan_dict # prior_dict
    /\ current_travel_plan # prior_plan
    /\ TravelPlan(current_plan_dict.v) = current_travel_plan

\* C30: a Generate press that succeeds stores the new plan and its record together and
\* empties chat_messages and chat_history; one that fails (rejected inputs, configuration
\* error, no plan, exception) leaves the plan, the record and both chat lists as they were.
C30_GenerateAllOrNothing ==
    [][\A form \in Forms, selected \in SessionSelections, hotel \in SessionHotels, reply \in SessionDraftReplies :
          GenerateWith(form, selected, hotel, reply)
          => IF banner' = ""
             THEN /\ current_travel_plan' = GenerateTravelPlan(TravelRequest(form, selected, hotel), reply, SessionEnv)
                  /\ current_travel_plan' # None
                  /\ current_plan_dict' = ModelDump(current_travel_plan')
                  /\ chat_messages' = << >>
                  /\ chat_history' = << >>
             ELSE /\ banner' \in {ValidateInputs(form.source, form.destination, form.start_date, form.end_date),
                                  "Configuration Error", "An error occurred",
                                  "Failed to generate travel plan. Please check your API keys and try again."}
                  /\ UNCHANGED <<current_travel_plan, current_plan_dict, chat_messages, chat_history>>]_vars

C30_Witness ==
    /\ pc = "idle"
    /\ banner = "Failed to generate travel plan. Please check your API keys and try again."
    /\ current_travel_plan # None
    /\ Len(chat_messages) = 2
    /\ Len(chat_history) = 2

\* C27: the request of an edit is the two plan-context messages, then the last HistoryWindow
\* messages of the conversation history (all of it when it is shorter) in their order, then
\* the new user message.
C27_RequestCarriesRecentHistory ==
    (pc = "pending" /\ config.llm_key) =>
        LET n == Len(chat_history)
            k == Min({n, HistoryWindow})
        IN  /\ Len(sent) = 2 + k + 1
            /\ sent[1].role = "user" /\ sent[1].content = "plan_context"
            /\ sent[2].role = "assistant"
            /\ \A i \in 1..k : sent[2 + i] = chat_history[n - k + i]
            /\ sent[Len(sent)] = Message("user", user_input)

C27_Witness ==
    /\ pc = "pending"
    /\ Len(chat_history) = HistoryCap
    /\ Len(sent) = HistoryWindow + 3
    /\ sent[3] = chat_history[HistoryCap - HistoryWindow + 1]
    /\ sent[3] # chat_history[1]
    /\ sent[3] # sent[5]

\* C29: the conversation history has an even length of at most HistoryCap and is the last
\* exchanges of the accepted edits shown in the chat, in their order, each as the user's
\* message followed by the short acknowledgement; an edit that is rejected or fails adds
\* nothing to it.
C29_HistoryHoldsAcceptedPairs ==
    LET accepted == {j \in 1..(Len(chat_messages) - 1) :
                        /\ chat_messages[j].role = "user"
                        /\ chat_messages[j + 1] = Message("assistant", MsgDone)}
        pairs == Len(chat_history) \div 2
        Nth(m) == CHOOSE j \in accepted : Cardinality({x \in accepted : x <= j}) = m
    IN  /\ Len(chat_history) <= HistoryCap
        /\ Len(chat_history) % 2 = 0
        /\ pairs = Min({Cardinality(accepted), HistoryCap \div 2})
        /\ \A i \in 1..pairs :
               /\ chat_history[2 * i - 1] = chat_messages[Nth(Cardinality(accepted) - pairs + i)]
               /\ chat_history[2 * i] = Message("assistant", HistoryDone)
        /\ (pc = "rejected" /\ result # NoResult) => ~Accepted(result)

C29_Witness ==
    /\ pc = "applied"
    /\ Len(chat_history) = HistoryCap
    /\ Len(chat_messages) = HistoryCap + 4
    /\ chat_messages[2].content = MsgDone
    /\ chat_messages[4].content = MsgFormatting
    /\ chat_history[1] = chat_messages[5]
    /\ chat_history[1] # chat_messages[1]
    /\ \E j \in 1..Len(chat_messages) : chat_messages[j].content = MsgFormatting

(***************************************************************************)
(* Properties of generate_travel_plan.                                     *)
(***************************************************************************)
\* C4: with a selected flight in the request, the transportation leg of the returned plan has
\* the selected flight's price, airline, flight number, departure time, arrival time and duration.
C4_SelectedFlightWins ==
    (gen_pc = "done" /\ plan_out # None /\ request.selected_flight # None) =>
        LET leg == plan_out.v.transportation.v[1].v
        IN  \A f \in {"price", "airline", "flight_number", "departure_time", "arrival_time", "duration"} :
                leg[f] = request.selected_flight.v[f]

\* C5: a returned plan has at most duration_days itinerary entries and its i-th entry has
\* day_number i.
C5_DaysNumberedByPosition ==
    (gen_pc = "done" /\ plan_out # None) =>
        LET itinerary == plan_out.v.itinerary.v
        IN  /\ Len(itinerary) <= plan_out.v.duration_days.v
            /\ \A i \in 1..Len(itinerary) : itinerary[i].v.day_number = Num(i)

\* C6: one call issues exactly one drafter request; when that request fails, its content is
\* no JSON, or the draft cannot be built into a plan record (it is no object, its
\* transportation is no object, or an activity is no record), the call returns None; whatever
\* it returns otherwise is a complete valid TravelPlan.
C6_OneDraftOrNoPlan ==
    gen_pc = "done" =>
        /\ drafter_calls = 1
        /\ LET c == draft_reply.content
               failed == draft_reply.kind # "text"
               unparseable == ~(\/ Len(c) = 1 /\ c[1].tok = "scalar"
                                \/ /\ Len(c) >= 2 /\ c[1].tok = "{" /\ c[Len(c)].tok = "}"
                                   /\ \A i \in 2..(Len(c) - 1) : c[i].tok = "member")
               noObject == Len(c) = 1
               unbuildable ==
                   \E i \in 2..(Len(c) - 1) :
                       \/ c[i].k = "transportation" /\ c[i].v.t # "obj"
                       \/ /\ c[i].k = "itinerary"
                          /\ \E d \in 1..Len(c[i].v.v) : \E a \in 1..Len(c[i].v.v[d].v.morning.v) :
                                c[i].v.v[d].v.morning.v[a].t # "obj"
           IN  (failed \/ unparseable \/ noObject \/ unbuildable) => plan_out = None
        /\ plan_out # None =>
              /\ plan_out.t = "TravelPlan"
              /\ DOMAIN plan_out.v = DOMAIN TravelPlanSchema
              /\ TravelPlan_OK(plan_out.v)

C6_Witness ==
    /\ gen_pc = "done"
    /\ draft_reply.kind = "text"
    /\ Len(draft_reply.content) > 1
    /\ draft_reply.content[1].tok = "prose"
    /\ plan_out = None
    /\ drafter_calls = 1

\* C7: a returned plan has accommodation.check_in equal to the request's start date and
\* check_out equal to its end date, written YYYY-MM-DD, whatever the draft says.
C7_StayDatesFromRequest ==
    (gen_pc = "done" /\ plan_out # None) =>
        LET two == <<"01", "02", "03", "04", "05", "06", "07", "08", "09", "10", "11", "12", "13", "14",
                     "15", "16", "17", "18", "19", "20", "21", "22", "23", "24", "25", "26", "27", "28",
                     "29", "30", "31">>
            Iso(date) == Str("2025-" \o two[date.m] \o "-" \o two[date.d])
        IN  /\ plan_out.v.accommodation.v.check_in = Iso(request.start_date)
            /\ plan_out.v.accommodation.v.check_out = Iso(request.end_date)

C7_Witness ==
    /\ gen_pc = "done"
    /\ plan_out # None
    /\ \E i \in 1..Len(draft_reply.content) :
          /\ draft_reply.content[i].k = "accommodation"
          /\ draft_reply.content[i].v.v.check_out = Str("2025-01-09")
    /\ plan_out.v.accommodation.v.check_out = Str("2025-07-02")

\* C17: a request that validate_inputs accepts ends after it starts, and the plan generated
\* for it has a duration_days between 1 and 30.
C17_AcceptedDurationInRange ==
    (/\ gen_pc = "done"
     /\ ValidateInputs(request.source, request.destination, request.start_date, request.end_date) = "")
    => /\ Ordinal(request.end_date) > Ordinal(request.start_date)
       /\ Duration(request) \in 1..MaxTripDays
       /\ plan_out # None => plan_out.v.duration_days.v \in 1..MaxTripDays

\* C19: the nights of a generated plan's accommodation are the nights between its check-in
\* and its check-out, which are the request's start and end dates.
C19_NightsAreStayLength ==
    (gen_pc = "done" /\ plan_out # None)
    => LET accommodation == plan_out.v.accommodation.v
       IN  /\ accommodation.check_in = Str(Strftime(request.start_date))
           /\ accommodation.check_out = Str(Strftime(request.end_date))
           /\ accommodation.nights = Num(Ordinal(request.end_date) - Ordinal(request.start_date))

\* C20: the plan_type of a generated plan is "comfort" for first or business class with a
\* hotel ceiling above 300, "budget" for economy with a ceiling below 150, and "balanced"
\* otherwise, whatever the draft says and whether or not a flight was selected.
C20_PlanTypeRule ==
    (gen_pc = "done" /\ plan_out # None)
    => LET class == request.flight_class.v
           ceiling == request.hotel_price_max
       IN  /\ plan_out.v.plan_type.v = "comfort" <=> (class \in {"first", "business"} /\ ceiling > 300)
           /\ plan_out.v.plan_type.v = "budget" <=> (class = "economy" /\ ceiling < 150)
           /\ plan_out.v.plan_type.v \in {"comfort", "budget", "balanced"}

C20_Witness ==
    /\ gen_pc = "done"
    /\ plan_out # None
    /\ request.flight_class = Str("first")
    /\ request.hotel_price_max = 300
    /\ plan_out.v.plan_type = Str("balanced")
    /\ draft_reply.kind = "text"
    /\ \E i \in 1..Len(draft_reply.content) :
          draft_reply.content[i].tok = "member" /\ draft_reply.content[i].k = "plan_type"
             /\ draft_reply.content[i].v = Str("comfort")

\* C21: a returned plan has duration_days equal to the days from start to end plus one, which
\* is at least 1, and the request's source, destination, dates and travelers, whatever the
\* draft says about them; generation leaves the request, its selected flight included, as it was.
C21_PlanKeepsRequestFacts ==
    /\ []((gen_pc = "done" /\ plan_out # None)
          => /\ plan_out.v.duration_days = Num(Ordinal(request.end_date) - Ordinal(request.start_date) + 1)
             /\ plan_out.v.duration_days.v >= 1
             /\ plan_out.v.source = request.source
             /\ plan_out.v.destination = request.destination
             /\ plan_out.v.start_date = Str(Strftime(request.start_date))
             /\ plan_out.v.end_date = Str(Strftime(request.end_date))
             /\ plan_out.v.travelers = Num(request.travelers))
    /\ [][request' = request]_vars

C21_Witness ==
    /\ gen_pc = "done"
    /\ plan_out # None
    /\ request.selected_flight # None
    /\ \E i \in 1..Len(draft_reply.content) :
          /\ draft_reply.content[i].tok = "member"
          /\ draft_reply.content[i].k = "duration_days"
          /\ draft_reply.content[i].v # plan_out.v.duration_days

\* C22: with no selected flight, the plan is the one built from the draft with the cheapest
\* search result inside the request's price band, or else the cheapest result, merged over the
\* draft's transportation; when the search raises or finds nothing the plan is the one built
\* from the draft's own transportation.
C22_CheapestInBandMerged ==
    (/\ gen_pc = "done"
     /\ request.selected_flight = None
     /\ ~LLMGenerateRaises(draft_reply)
     /\ IsDict(LLMGenerate(draft_reply)))
    => LET draft == LLMGenerate(draft_reply).v
           flights == IF env.flights_raise THEN << >> ELSE env.flights
           Price(i) == flights[i].v.price.v
           in_band == {i \in 1..Len(flights) :
                          request.flight_price_min <= Price(i) /\ Price(i) <= request.flight_price_max}
           pool == IF in_band # {} THEN in_band ELSE 1..Len(flights)
           cheapest == CHOOSE i \in pool : \A j \in pool : Price(i) <= Price(j)
           enriched == WithEnrichedItinerary(draft, Geocode(env), env)
           merged == IF Len(flights) > 0 /\ "transportation" \in DOMAIN draft
                     THEN MergeDicts(enriched,
                              [transportation |-> Obj(MergeDicts(draft.transportation.v, flights[cheapest].v))])
                     ELSE enriched
       IN  (/\ "transportation" \in DOMAIN draft => IsDict(draft.transportation)
            /\ ~(EnrichApplies(draft, Geocode(env)) /\ EnrichItineraryRaises(draft.itinerary)))
           => plan_out = IF ParseRaises(merged, request, Duration(request)) THEN None
                         ELSE ParseLlmPlanToTravelPlan(merged, request, Duration(request))

C22_Witness ==
    /\ gen_pc = "done"
    /\ plan_out # None
    /\ request.selected_flight = None
    /\ env.flights = <<CheapFlight, BandFlight>>
    /\ request.flight_price_min > CheapFlight.v.price.v
    /\ plan_out.v.transportation.v[1].v.airline = BandFlight.v.airline
    /\ plan_out.v.transportation.v[1].v.flight_number = BandFlight.v.flight_number

\* C23: in a returned plan, an activity of type attraction or restaurant for which the places
\* search finds a match has the rating, rating count and location of the best match; every
\* other activity (another type, no coordinates, no match, a failing search) has the rating,
\* rating count and location the draft gave it.
C23_OnlyAttractionsEnriched ==
    (gen_pc = "done" /\ plan_out # None /\ "itinerary" \in DOMAIN LLMGenerate(draft_reply).v)
    => LET days == LLMGenerate(draft_reply).v.itinerary.v
           places == IF env.places_fail THEN << >> ELSE env.places
           best == CHOOSE p \in 1..Len(places) : \A q \in 1..Len(places) : places[q].v.rating.v <= places[p].v.rating.v
           Parses(act) == IsDict(act) /\ {"name", "type"} \subseteq DOMAIN act.v
           Matched(act) == /\ act.v.type.v \in {"attraction", "restaurant"}
                           /\ Truthy(Geocode(env))
                           /\ Len(places) > 0
       IN  \A d \in 1..Len(days) : \A slot \in TimeSlots \cap DOMAIN days[d].v :
              LET drafted == days[d].v[slot].v
                  planned == plan_out.v.itinerary.v[d].v[slot].v
              IN  (\A i \in 1..Len(drafted) : Parses(drafted[i]))
                  => \A i \in 1..Len(drafted) :
                        IF Matched(drafted[i])
                        THEN /\ planned[i].v.rating = places[best].v.rating
                             /\ planned[i].v.user_ratings_total = places[best].v.user_ratings_total
                             /\ planned[i].v.location = places[best].v.vicinity
                        ELSE /\ planned[i].v.rating = Get(drafted[i].v, "rating", None)
                             /\ planned[i].v.user_ratings_total = Get(drafted[i].v, "user_ratings_total", None)
                             /\ planned[i].v.location = Get(drafted[i].v, "location", None)

\* C24: when geocoding the destination gives no coordinates (nothing found, or the call
\* failed) no places query is made and the outcome is the plan built from the draft without
\* enrichment; it is None only when that plan cannot be built.
C24_NoCoordinatesNoEnrichment ==
    (gen_pc = "done" /\ env.geo \in {"empty", "error"})
    => /\ "places" \notin ProviderCalls(request, draft_reply, env)
       /\ LET drafted == ~LLMGenerateRaises(draft_reply) /\ IsDict(LLMGenerate(draft_reply))
               draft == LLMGenerate(draft_reply).v
               merges == MergeApplies(draft, request, env)
               data == WithFlightData(draft, request, env)
           IN  plan_out = IF ~drafted THEN None
                          ELSE IF merges /\ ~IsDict(draft.transportation) THEN None
                          ELSE IF ParseRaises(data, request, Duration(request)) THEN None
                          ELSE ParseLlmPlanToTravelPlan(data, request, Duration(request))

C24_Witness ==
    /\ gen_pc = "done"
    /\ env.geo = "empty"
    /\ Len(env.places) > 0 /\ ~env.places_fail
    /\ plan_out # None
    /\ Len(plan_out.v.itinerary.v) > 0
    /\ Len(plan_out.v.itinerary.v[1].v.morning.v) > 0
    /\ plan_out.v.itinerary.v[1].v.morning.v[1].v.name = Str("Louvre")
    /\ plan_out.v.itinerary.v[1].v.morning.v[1].v.rating = None

\* C25: when the draft has fewer days than duration_days, generation fails only if it also
\* fails for the same draft on a trip no longer than the draft; a returned plan has the
\* draft's days, as many and in the same order, and the requested duration_days.
C25_ShortDraftStillBuilds ==
    (/\ gen_pc = "done"
     /\ ~LLMGenerateRaises(draft_reply)
     /\ IsDict(LLMGenerate(draft_reply))
     /\ IsList(Get(LLMGenerate(draft_reply).v, "itinerary", None))
     /\ Len(LLMGenerate(draft_reply).v.itinerary.v) < Ordinal(request.end_date) - Ordinal(request.start_date) + 1)
    => LET days == LLMGenerate(draft_reply).v.itinerary.v
           short_trip == [request EXCEPT !.end_date = FromOrdinal(Ordinal(request.start_date) + Max({Len(days), 1}) - 1)]
       IN  /\ plan_out = None <=> GenerateTravelPlan(short_trip, draft_reply, env) = None
           /\ plan_out # None
              => /\ Len(plan_out.v.itinerary.v) = Len(days)
                 /\ \A i \in 1..Len(days) :
                       /\ plan_out.v.itinerary.v[i].v.date = Get(days[i].v, "date", Str(""))
                       /\ plan_out.v.itinerary.v[i].v.day_number = Get(days[i].v, "day_number", Num(i))
                       /\ Len(plan_out.v.itinerary.v[i].v.evening.v) = Len(days[i].v.evening.v)
                 /\ plan_out.v.duration_days = Num(Ordinal(request.end_date) - Ordinal(request.start_date) + 1)

C25_Witness ==
    /\ gen_pc = "done"
    /\ plan_out # None
    /\ Len(plan_out.v.itinerary.v) = 2
    /\ plan_out.v.duration_days = Num(3)
    /\ plan_out.v.itinerary.v[2].v.day_number = Num(2)

\* C26: an activity entry of the draft that is no record, or a record without a name or a
\* type, is dropped on its own: generation returns what it returns for the same draft without
\* those entries.
C26_BadActivityDroppedAlone ==
    (gen_pc = "done" /\ draft_reply.kind = "text")
    => LET Parses(act) == IsDict(act) /\ {"name", "type"} \subseteq DOMAIN act.v
           CleanDay(day) ==
               IF IsDict(day)
               THEN Obj([k \in DOMAIN day.v |->
                           IF k \in TimeSlots /\ IsList(day.v[k])
                           THEN List(SelectSeq(day.v[k].v, Parses)) ELSE day.v[k]])
               ELSE day
           CleanToken(t) ==
               IF t.tok = "member" /\ t.k = "itinerary" /\ IsList(t.v)
               THEN Member("itinerary", List([i \in 1..Len(t.v.v) |-> CleanDay(t.v.v[i])]))
               ELSE t
           cleaned == Text([i \in 1..Len(draft_reply.content) |-> CleanToken(draft_reply.content[i])])
       IN  plan_out = GenerateTravelPlan(request, cleaned, env)

C13_FlagTellsSynthetic ==
    (adapter.pc = "returned" /\ adapter.kind \in {"flights", "hotels"})
    => (adapter.use_mock_data <=> adapter.synthetic)

\* C14: the synthetic flights are 8 to 12 offers and the synthetic hotels 8 to 15, each list
\* in non-decreasing order of price (flights by price, hotels by price_per_night).
C14_MockOffersCountedAndSorted ==
    (adapter.pc = "returned" /\ adapter.synthetic)
    => LET offers == adapter.result
           key == IF adapter.kind = "flights" THEN "price" ELSE "price_per_night"
       IN  /\ adapter.kind = "flights" => Len(offers) \in 8..12
           /\ adapter.kind = "hotels" => Len(offers) \in 8..15
           /\ \A i \in 1..(Len(offers) - 1) : offers[i][key] <= offers[i + 1][key]

C14_Witness ==
    /\ adapter.pc = "returned"
    /\ adapter.synthetic
    /\ adapter.kind = "flights"
    /\ Len(adapter.result) = 12
    /\ adapter.result[1].price < adapter.result[12].price

====
